---- MODULE Spec2Model ----
(***************************************************************************)
(* Model of drf_auth_email/views.py: the email action-code protocol        *)
(* (signup, password reset, email change) and the token login/logout.      *)
(*                                                                         *)
(* Every request runs in one of the request slots Procs.  The views do not *)
(* open a transaction, so every storage round trip of the consumption      *)
(* views (ActionVerifyView.post and its three subclasses) is one step and  *)
(* steps of different requests interleave.  Login is two steps, the get    *)
(* and the create of get_or_create.  The issuance views, PasswordChange,   *)
(* Logout and the pre-checks are one step each.                            *)
(***************************************************************************)
EXTENDS Integers, FiniteSets, TLC

\* ---- bounds of the model ------------------------------------------------
MaxUsers == 2
MaxEmails == 2
MaxPasswords == 2
MaxCodes == 2
MaxTokens == 2
MaxTime == 1
MaxProcs == 2

Emails == 1..MaxEmails
Passwords == 1..MaxPasswords
Procs == 1..MaxProcs
CodeStrings == 1..MaxCodes
Kinds == {"signup", "reset", "email"}

VARIABLES
    users,      \* the USER table: primary key -> row
    codes,      \* the SignupCode / PasswordResetCode / EmailChangeCode rows
    tokens,     \* the authtoken Token rows
    now,        \* the clock, counting code lifetimes
    nextUser,   \* next primary key of the USER table
    nextCode,   \* next code string to be generated
    nextToken,  \* next token key to be generated
    req,        \* the request each slot is handling, with its position
    out,        \* the response a view returns, until the client has it
    consumed    \* history: the <<kind, code>> that post has answered with
                \* its success message

vars == <<users, codes, tokens, now, nextUser, nextCode, nextToken, req, out,
          consumed>>

\* ---- requests -----------------------------------------------------------
\* A slot that handles nothing.
Idle ==
    [pc |-> "idle", view |-> "none", code |-> 0, email |-> 0, password |-> 0,
     new_password |-> 0,
     user |-> 0, new_email |-> 0, holder |-> 0, token |-> 0, welcome |-> 0,
     resp |-> "none"]

\* A slot handles no request.
Free(p) == req[p].pc = "idle"

\* A new request is taken by the first slot that handles none.
Accepts(p) == out = Idle /\ Free(p) /\ \A q \in Procs : q < p => ~Free(q)

\* The view handling request r in slot p returns the response resp.
Answer(p, r, resp) ==
    /\ out = Idle
    /\ out' = [r EXCEPT !.pc = "done", !.resp = resp]
    /\ req' = [req EXCEPT ![p] = Idle]

\* ---- storage ------------------------------------------------------------
\* USER.objects.filter(email=e).first(): the primary key of the row, or 0.
UserWithEmail(e) ==
    IF \E u \in DOMAIN users : users[u].email = e
    THEN CHOOSE u \in DOMAIN users : users[u].email = e
    ELSE 0

\* The rows of one code model owned by one user.
CodesOf(kind, u) == {c \in codes : c.kind = kind /\ c.user = u}

\* objects.create(user=u, ...) of a code model: a fresh unique code string,
\* and an expiry at the end of the current lifetime period.
NewCode(kind, u, e) ==
    [code |-> nextCode, kind |-> kind, user |-> u, new_email |-> e,
     expires_at |-> now]

\* user.delete(): the row and, by cascade, its codes and its token.
UsersWithout(u) == [x \in DOMAIN users \ {u} |-> users[x]]
CodesWithout(u) == {c \in codes : c.user # u}
\* Variant: the tokens of every user are deleted.
TokensWithoutAnyone(u) == {}

TokensWithout(u) == {t \in tokens : t.user # u}

\* AbstractCodeVerify.check_is_valid(code): the row of this kind with this
\* code string when it exists and has not expired, else a ValueError.
CodeFound(kind, code) == \E c \in codes : c.kind = kind /\ c.code = code
CodeRow(kind, code) == CHOOSE c \in codes : c.kind = kind /\ c.code = code
CheckIsValid(kind, code) ==
    /\ CodeFound(kind, code)
    /\ ~(now > CodeRow(kind, code).expires_at)

\* A user who has signed up and completed the signup (SignupVerify.post).
VerifiedUser(e, pw) ==
    [email |-> e, is_verified |-> TRUE, is_active |-> TRUE, password |-> pw]

\* The service starts with an empty user table, or with one verified user
\* whose signup codes are all consumed and whom the administration has
\* left active or has deactivated.
Init ==
    /\ \/ users = << >> /\ nextUser = 1
       \/ /\ \E active \in BOOLEAN :
                 users = (1 :> [VerifiedUser(1, 1) EXCEPT
                                    !.is_active = active])
          /\ nextUser = 2
    /\ codes = {}
    /\ tokens = {}
    /\ now = 0
    /\ nextCode = 1
    /\ nextToken = 1
    /\ req = [p \in Procs |-> Idle]
    /\ out = Idle
    /\ consumed = {}

\* ---- the clock ----------------------------------------------------------
Tick ==
    /\ out = Idle
    /\ now < MaxTime
    /\ now' = now + 1
    /\ UNCHANGED <<users, codes, tokens, nextUser, nextCode, nextToken, req,
                   out, consumed>>

\* The response is sent to the client.
Return ==
    /\ out # Idle
    /\ out' = Idle
    /\ UNCHANGED <<users, codes, tokens, now, nextUser, nextCode, nextToken,
                   req, consumed>>

\* ---- issuance views ------------------------------------------------------
\* Variant: the owner of the email is never looked at.
CheckVerifiedUsersSkipped(e) == FALSE

\* Signup.check_verified_users raises for the email of a verified user.
CheckVerifiedUsers(e) ==
    UserWithEmail(e) # 0 /\ users[UserWithEmail(e)].is_verified

\* user_serializer_class(user, data=signup_serializer.data, partial=True)
\* and save(): the row of the user with the fields of the request filled in.
\* The serializer is given the row that get_or_create returned, whether
\* created or found, so both take the same path through save().
UserSerializerSave(row, pw) == [row EXCEPT !.password = pw]

\* Signup.post: serializer check, check_verified_users (get_or_create by
\* email, refused for a verified owner), user_serializer.save() with the
\* request's data, SignupCode.objects.create and send_email.
Signup(p, e, pw, valid) ==
    /\ Accepts(p)
    /\ LET r0 == [Idle EXCEPT !.view = "Signup",
                              !.email = IF valid THEN e ELSE 0]
           u == UserWithEmail(e)
           uid == IF u = 0 THEN nextUser ELSE u
       IN  IF ~valid
           THEN /\ Answer(p, r0, "ValidationError")
                /\ UNCHANGED <<users, codes, nextUser, nextCode>>
           ELSE IF CheckVerifiedUsers(e)
           THEN /\ Answer(p, r0, "EmailTaken")
                /\ UNCHANGED <<users, codes, nextUser, nextCode>>
           ELSE /\ nextCode <= MaxCodes
                /\ u = 0 => nextUser <= MaxUsers
                /\ users' = IF u = 0
                             THEN (uid :> UserSerializerSave(
                                      [email |-> e, is_verified |-> FALSE,
                                       is_active |-> TRUE, password |-> 0],
                                      pw)) @@ users
                             ELSE [users EXCEPT
                                      ![u] = UserSerializerSave(users[u], pw)]
                /\ nextUser' = IF u = 0 THEN nextUser + 1 ELSE nextUser
                /\ codes' = codes \cup {NewCode("signup", uid, 0)}
                /\ nextCode' = nextCode + 1
                /\ Answer(p, [r0 EXCEPT !.user = uid, !.code = nextCode],
                          "Created")
    /\ UNCHANGED <<tokens, now, nextToken, consumed>>

\* Variant: a deactivated user gets a code as well.
ResetAllowedInactive(e) ==
    UserWithEmail(e) # 0 /\ users[UserWithEmail(e)].is_verified

\* PasswordReset.post issues a code only for an existing, verified, active
\* user.
ResetAllowed(e) ==
    /\ UserWithEmail(e) # 0
    /\ users[UserWithEmail(e)].is_verified
    /\ users[UserWithEmail(e)].is_active

\* Variant: the refusal names its cause.
ResetRefusalByCause(u) ==
    IF u = 0 THEN "NotAllowed"
    ELSE IF ~users[u].is_verified THEN "NotVerified" ELSE "NotActive"

\* PasswordReset.post, the response when no code is issued: one detail and
\* one status, whatever the user found (or not found) by the email.
ResetRefusal(u) == "NotAllowed"

PasswordReset(p, e, valid) ==
    /\ Accepts(p)
    /\ LET r0 == [Idle EXCEPT !.view = "PasswordReset",
                              !.email = IF valid THEN e ELSE 0]
           u == UserWithEmail(e)
       IN  IF ~valid
           THEN /\ Answer(p, r0, "ValidationError")
                /\ UNCHANGED <<codes, nextCode>>
           ELSE IF ResetAllowed(e)
           THEN /\ nextCode <= MaxCodes
                /\ codes' = codes \cup {NewCode("reset", u, 0)}
                /\ nextCode' = nextCode + 1
                /\ Answer(p, [r0 EXCEPT !.user = u, !.code = nextCode],
                          "Created")
           ELSE /\ Answer(p, r0, ResetRefusal(u))
                /\ UNCHANGED <<codes, nextCode>>
    /\ UNCHANGED <<users, tokens, now, nextUser, nextToken, consumed>>

\* Variant: any owner of the address, verified or not, refuses the request.
AlreadyTakenByAnyone(e) == UserWithEmail(e) # 0

\* EmailChange.post refuses an address that a verified user owns.
AlreadyTaken(e) ==
    UserWithEmail(e) # 0 /\ users[UserWithEmail(e)].is_verified

\* EmailChange.post, for the user authenticated by token t: refused when a
\* verified user owns the candidate address, else a code carrying it.
EmailChange(p, t, e, valid) ==
    /\ Accepts(p)
    /\ t \in tokens
    /\ LET r0 == [Idle EXCEPT !.view = "EmailChange", !.user = t.user,
                              !.new_email = IF valid THEN e ELSE 0]
       IN  IF ~valid
           THEN /\ Answer(p, r0, "ValidationError")
                /\ UNCHANGED <<codes, nextCode>>
           ELSE IF AlreadyTaken(e)
           THEN /\ Answer(p, r0, "EmailTaken")
                /\ UNCHANGED <<codes, nextCode>>
           ELSE /\ nextCode <= MaxCodes
                /\ codes' = codes \cup {NewCode("email", t.user, e)}
                /\ nextCode' = nextCode + 1
                /\ Answer(p, [r0 EXCEPT !.code = nextCode], "Created")
    /\ UNCHANGED <<users, tokens, now, nextUser, nextToken, consumed>>

\* ---- password change ------------------------------------------------------
\* Variant: the current password is not asked for.
CheckPasswordSkipped(u, pw) == TRUE

\* user.check_password(serializer.data.get('password')).
CheckPassword(u, pw) == users[u].password = pw

\* PasswordChange.post, for the user authenticated by token t: the
\* serializer check, check_password of the presented password, then
\* set_password(new_password) and save().
PasswordChange(p, t, pw, new, valid) ==
    /\ Accepts(p)
    /\ t \in tokens
    /\ LET r0 == [Idle EXCEPT !.view = "PasswordChange", !.user = t.user]
           r1 == [r0 EXCEPT !.password = pw, !.new_password = new]
       IN  IF ~valid
           THEN /\ Answer(p, r0, "ValidationError")
                /\ UNCHANGED users
           ELSE IF ~CheckPassword(t.user, pw)
           THEN /\ Answer(p, r1, "PasswordMismatch")
                /\ UNCHANGED users
           ELSE /\ users' = [users EXCEPT ![t.user].password = new]
                /\ Answer(p, r1, "Changed")
    /\ UNCHANGED <<codes, tokens, now, nextUser, nextCode, nextToken,
                   consumed>>

\* ---- token views ---------------------------------------------------------
\* Variant: the password is not compared.
AuthenticateByEmail(e, pw) == UserWithEmail(e)

\* authenticate(email=e, password=pw), the comparison of the credentials:
\* the user's primary key, or 0.
Authenticate(e, pw) ==
    LET u == UserWithEmail(e)
    IN  IF u # 0 /\ users[u].password = pw THEN u ELSE 0

\* Login.authenticate_user: what authenticate() can return.  It asks the
\* backends of the settings, which views.py does not choose: Django's
\* ModelBackend returns None for a deactivated user, a backend that admits
\* every user returns the user.
AuthenticateUser(e, pw) ==
    LET u == Authenticate(e, pw)
    IN  IF u # 0 /\ ~users[u].is_active THEN {u, 0} ELSE {u}

\* The token rows of user u.
TokenOf(u) == {t \in tokens : t.user = u}

\* Variant: nothing keeps a second row of the same user out.
GetOrCreateTokenUnconstrained(u) ==
    tokens \cup {[key |-> nextToken, user |-> u]}

\* Token.objects.get_or_create(user=u), the create after a get that found
\* no row: the rows after it.  Token.user is unique, so when a row of the
\* user has appeared in between the create fails and the row is fetched.
GetOrCreateToken(u) ==
    IF TokenOf(u) # {} THEN tokens
    ELSE tokens \cup {[key |-> nextToken, user |-> u]}

\* Variant: a deactivated user is let in.
LoginRefusalActiveUnchecked(u) ==
    IF u = 0 THEN "InvalidCredentials"
    ELSE IF ~users[u].is_verified THEN "NotVerified"
    ELSE "none"

\* Login.post, the 401 responses: authentication has failed, or the user
\* is not verified, or not active; "none" when the user may log in.
LoginRefusal(u) ==
    IF u = 0 THEN "InvalidCredentials"
    ELSE IF ~users[u].is_verified THEN "NotVerified"
    ELSE IF ~users[u].is_active THEN "NotActive"
    ELSE "none"

\* Login.post up to the get of get_or_create: the refusals, the token of a
\* user who has one, or on to the create.
Login(p, e, pw) ==
    /\ Accepts(p)
    /\ \E u \in AuthenticateUser(e, pw) :
       LET r0 == [Idle EXCEPT !.view = "Login", !.email = e,
                              !.password = pw, !.user = u]
       IN  IF LoginRefusal(u) # "none"
           THEN Answer(p, r0, LoginRefusal(u))
           ELSE IF TokenOf(u) # {}
           THEN Answer(p, [r0 EXCEPT !.token =
                               (CHOOSE t \in TokenOf(u) : TRUE).key],
                       "Token")
           ELSE /\ req' = [req EXCEPT ![p] =
                               [r0 EXCEPT !.pc = "create_token"]]
                /\ UNCHANGED out
    /\ UNCHANGED <<users, codes, tokens, now, nextUser, nextCode, nextToken,
                   consumed>>

\* Login.post, the create of get_or_create and the response with token.key.
\* The row of a user who is gone cannot be created.
CreateToken(p) ==
    /\ out = Idle
    /\ req[p].pc = "create_token"
    /\ LET u == req[p].user
       IN  IF u \notin DOMAIN users
           THEN /\ Answer(p, req[p], "ServerError")
                /\ UNCHANGED <<tokens, nextToken>>
           ELSE /\ GetOrCreateToken(u) # tokens => nextToken <= MaxTokens
                /\ tokens' = GetOrCreateToken(u)
                /\ nextToken' = IF GetOrCreateToken(u) # tokens
                                THEN nextToken + 1 ELSE nextToken
                /\ Answer(p, [req[p] EXCEPT !.token =
                       IF TokenOf(u) # {}
                       THEN (CHOOSE t \in TokenOf(u) : TRUE).key
                       ELSE nextToken], "Token")
    /\ UNCHANGED <<users, codes, now, nextUser, nextCode, consumed>>

\* Logout.post, for the user authenticated by token t.
Logout(p, t) ==
    /\ Accepts(p)
    /\ t \in tokens
    /\ tokens' = TokensWithout(t.user)
    /\ Answer(p, [Idle EXCEPT !.view = "Logout", !.user = t.user],
              "LoggedOut")
    /\ UNCHANGED <<users, codes, now, nextUser, nextCode, nextToken, consumed>>

\* ---- pre-check views: ActionCodeVerifyView.get --------------------------
CodeVerifyView(kind) ==
    CASE kind = "signup" -> "SignupCodeVerify"
      [] kind = "reset"  -> "PasswordResetCodeVerify"
      [] kind = "email"  -> "EmailChangeCodeVerify"

\* Variant: the pre-check uses the code up.
CodesAfterGetConsuming(kind, code) ==
    {c \in codes : ~(c.kind = kind /\ c.code = code)}

\* What get does to the code rows.
CodesAfterGet(kind, code) == codes

CodeVerifyGet(p, kind, code) ==
    /\ Accepts(p)
    /\ Answer(p, [Idle EXCEPT !.view = CodeVerifyView(kind), !.code = code],
              IF CheckIsValid(kind, code) THEN "Valid" ELSE "InvalidCode")
    /\ codes' = CodesAfterGet(kind, code)
    /\ UNCHANGED <<users, tokens, now, nextUser, nextCode, nextToken,
                   consumed>>

\* ---- consumption views: ActionVerifyView.post ---------------------------
VerifyView(kind) ==
    CASE kind = "signup" -> "SignupVerify"
      [] kind = "reset"  -> "PasswordResetVerify"
      [] kind = "email"  -> "EmailChangeVerify"

KindOf(view) ==
    CASE view = "SignupVerify"        -> "signup"
      [] view = "PasswordResetVerify" -> "reset"
      [] view = "EmailChangeVerify"   -> "email"
      [] OTHER                        -> "none"

\* Variant: only a missing row is rejected, an expired one is acted upon.
RejectedIfMissing(kind, code) == ~CodeFound(kind, code)

\* post returns the 400 of the ValueError raised by check_is_valid.
Rejected(kind, code) == ~CheckIsValid(kind, code)

\* post, up to the first storage call of handle_request / handle_action_code:
\* check_is_valid(code, select_related_user=True), the 400 on ValueError,
\* and the part of handle_request that reads the request only
\* (PasswordResetVerify: the serializer check of the body).  SignupVerify
\* later reads action_code.user.email of the user loaded here.
VerifyPost(p, kind, code, pw, valid) ==
    /\ Accepts(p)
    /\ kind # "reset" => pw = 0 /\ valid
    /\ kind = "reset" => pw \in Passwords
    /\ LET r0 == [Idle EXCEPT !.view = VerifyView(kind), !.code = code]
           row == CodeRow(kind, code)
           r1 == [r0 EXCEPT !.user = row.user, !.new_email = row.new_email,
                            !.password = pw,
                            !.email = IF kind = "signup"
                                      THEN users[row.user].email ELSE 0]
       IN  IF Rejected(kind, code) THEN Answer(p, r0, "InvalidCode")
           ELSE IF ~valid THEN Answer(p, r1, "ValidationError")
           ELSE /\ req' = [req EXCEPT ![p] =
                       [r1 EXCEPT !.pc = IF kind = "email"
                                         THEN "handle_request"
                                         ELSE "handle_action_code"]]
                /\ UNCHANGED out
    /\ UNCHANGED <<users, codes, tokens, now, nextUser, nextCode, nextToken,
                   consumed>>

\* Variant: the holder of new_email is deleted whether verified or not.
HandleRequestAnyHolder(p) ==
    /\ out = Idle
    /\ req[p].pc = "handle_request"
    /\ LET h == UserWithEmail(req[p].new_email)
       IN  req' = [req EXCEPT ![p].pc = IF h = 0 THEN "handle_action_code"
                                       ELSE "delete_holder",
                             ![p].holder = h]
    /\ UNCHANGED <<users, codes, tokens, now, nextUser, nextCode, nextToken,
                   out, consumed>>

\* Variant: a request refused for a verified holder uses the codes up.
HandleRequestRefusalConsumes(p) ==
    /\ out = Idle
    /\ req[p].pc = "handle_request"
    /\ LET h == UserWithEmail(req[p].new_email)
       IN  IF h = 0
           THEN /\ req' = [req EXCEPT ![p].pc = "handle_action_code"]
                /\ UNCHANGED <<out, codes>>
           ELSE IF users[h].is_verified
           THEN /\ Answer(p, req[p], "EmailTaken")
                /\ codes' = codes \ CodesOf("email", req[p].user)
           ELSE /\ req' = [req EXCEPT ![p].pc = "delete_holder",
                                      ![p].holder = h]
                /\ UNCHANGED <<out, codes>>
    /\ UNCHANGED <<users, tokens, now, nextUser, nextCode, nextToken,
                   consumed>>

\* EmailChangeVerify.handle_request, the query: the user holding new_email.
\* A verified holder ends the request; an unverified one is to be deleted.
HandleRequest(p) ==
    /\ out = Idle
    /\ req[p].pc = "handle_request"
    /\ LET h == UserWithEmail(req[p].new_email)
       IN  IF h = 0
           THEN /\ req' = [req EXCEPT ![p].pc = "handle_action_code"]
                /\ UNCHANGED out
           ELSE IF users[h].is_verified
           THEN Answer(p, req[p], "EmailTaken")
           ELSE /\ req' = [req EXCEPT ![p].pc = "delete_holder",
                                      ![p].holder = h]
                /\ UNCHANGED out
    /\ UNCHANGED <<users, codes, tokens, now, nextUser, nextCode, nextToken,
                   consumed>>

\* Variant: the holder of new_email is left in place.
DeleteHolderSkipped(p) ==
    /\ out = Idle
    /\ req[p].pc = "delete_holder"
    /\ req' = [req EXCEPT ![p].pc = "handle_action_code"]
    /\ UNCHANGED <<users, codes, tokens, now, nextUser, nextCode, nextToken,
                   out, consumed>>

\* EmailChangeVerify.handle_request, user_with_new_email.delete().
DeleteHolder(p) ==
    /\ out = Idle
    /\ req[p].pc = "delete_holder"
    /\ users' = UsersWithout(req[p].holder)
    /\ codes' = CodesWithout(req[p].holder)
    /\ tokens' = TokensWithout(req[p].holder)
    /\ req' = [req EXCEPT ![p].pc = "handle_action_code"]
    /\ UNCHANGED <<now, nextUser, nextCode, nextToken, out, consumed>>

\* Variant: the email column is not unique.
EmailHeldByNoOne(u, e) == FALSE

\* Another row holds this address: the unique email rejects the write.
EmailHeldByOther(u, e) ==
    \E x \in DOMAIN users : x # u /\ users[x].email = e

\* handle_action_code, the write to the user of the code (verify_user,
\* change_user_password, change_user_email): the user table after it.
ActOnUser(r) ==
    IF r.user \notin DOMAIN users THEN users
    ELSE CASE r.view = "SignupVerify" ->
                  [users EXCEPT ![r.user].is_verified = TRUE]
           [] r.view = "PasswordResetVerify" ->
                  [users EXCEPT ![r.user].password = r.password]
           [] r.view = "EmailChangeVerify" ->
                  [users EXCEPT ![r.user].email = r.new_email]

\* Variant: SignupVerify sends no welcome email.
AfterActionNoWelcome(view) == "cleanup"

\* handle_action_code, what follows the write to the user: SignupVerify
\* sends the welcome email before it deletes the codes.
AfterAction(view) ==
    IF view = "SignupVerify" THEN "send_welcome_email" ELSE "cleanup"

HandleActionCode(p) ==
    /\ out = Idle
    /\ req[p].pc = "handle_action_code"
    /\ IF /\ req[p].view = "EmailChangeVerify"
          /\ EmailHeldByOther(req[p].user, req[p].new_email)
       THEN /\ Answer(p, req[p], "ServerError")
            /\ UNCHANGED users
       ELSE /\ users' = ActOnUser(req[p])
            /\ req' = [req EXCEPT ![p].pc = AfterAction(req[p].view)]
            /\ UNCHANGED out
    /\ UNCHANGED <<codes, tokens, now, nextUser, nextCode, nextToken,
                   consumed>>

\* SignupVerify.send_welcome_email: the email goes to action_code.user.email.
SendWelcomeEmail(p) ==
    /\ out = Idle
    /\ req[p].pc = "send_welcome_email"
    /\ req' = [req EXCEPT ![p].pc = "cleanup", ![p].welcome = req[p].email]
    /\ UNCHANGED <<users, codes, tokens, now, nextUser, nextCode, nextToken,
                   out, consumed>>

\* Variant: nothing is deleted after the action.
SiblingsKept(r) == {}

\* Variant: only the presented code is deleted.
SiblingsPresentedOnly(r) ==
    {c \in codes : c.kind = KindOf(r.view) /\ c.code = r.code}

\* handle_action_code, action_code_model.objects.filter(user=...).delete():
\* the rows it deletes.
Siblings(r) == CodesOf(KindOf(r.view), r.user)

\* The delete and the success response of post.
Cleanup(p) ==
    /\ out = Idle
    /\ req[p].pc = "cleanup"
    /\ codes' = codes \ Siblings(req[p])
    /\ Answer(p, req[p], "Success")
    /\ consumed' = consumed \cup {<<KindOf(req[p].view), req[p].code>>}
    /\ UNCHANGED <<users, tokens, now, nextUser, nextCode, nextToken>>

\* ---- specifications ------------------------------------------------------
Start(p) ==
    \/ \E e \in Emails, pw \in Passwords, valid \in BOOLEAN :
           Signup(p, e, pw, valid)
    \/ \E e \in Emails, valid \in BOOLEAN : PasswordReset(p, e, valid)
    \/ \E t \in tokens, e \in Emails, valid \in BOOLEAN :
           EmailChange(p, t, e, valid)
    \/ \E t \in tokens, pw \in Passwords, new \in Passwords,
          valid \in BOOLEAN : PasswordChange(p, t, pw, new, valid)
    \/ \E e \in Emails, pw \in Passwords : Login(p, e, pw)
    \/ \E t \in tokens : Logout(p, t)
    \/ \E kind \in Kinds, code \in CodeStrings : CodeVerifyGet(p, kind, code)
    \/ \E kind \in Kinds, code \in CodeStrings, pw \in {0} \cup Passwords,
          valid \in BOOLEAN : VerifyPost(p, kind, code, pw, valid)

Step(p) ==
    \/ HandleRequest(p)
    \/ DeleteHolder(p)
    \/ HandleActionCode(p)
    \/ SendWelcomeEmail(p)
    \/ Cleanup(p)
    \/ CreateToken(p)

Next ==
    \/ Tick
    \/ Return
    \/ \E p \in Procs : Start(p)
    \/ \E p \in Procs : Step(p)

Spec == Init /\ [][Next]_vars

\* One request at a time: a request starts when no other is in progress.
NextSeq ==
    \/ Tick
    \/ Return
    \/ \E p \in Procs : (\A q \in Procs : Free(q)) /\ Start(p)
    \/ \E p \in Procs : Step(p)

SpecSeq == Init /\ [][NextSeq]_vars

\* ---- properties ----------------------------------------------------------
\* A view that answers in one step has just answered (no slot was freed).
Answered(view) ==
    out = Idle /\ out' # Idle /\ out'.view = view /\ req' = req

\* Slot p has just taken the consumption of this code past check_is_valid.
Admitted(p, kind, code) ==
    /\ Free(p) /\ ~Free(p)'
    /\ req'[p].view = VerifyView(kind) /\ req'[p].code = code

\* Slot p has just made a step of its request.
Stepped(p, pc) == req[p].pc = pc /\ req'[p] # req[p]

\* A verified user owns the address.
VerifiedOwner(e) ==
    \E h \in DOMAIN users : users[h].email = e /\ users[h].is_verified

\* The stored code has passed its expiry.
Expired(kind, code) ==
    CodeFound(kind, code) /\ now > CodeRow(kind, code).expires_at

\* The number of requests that have run handle_action_code for this code.
HandlerRuns(kind, code) ==
    Cardinality({p \in Procs : /\ req[p].view = VerifyView(kind)
                              /\ req[p].code = code
                              /\ req[p].pc = "cleanup"})
    + (IF /\ out.view = VerifyView(kind) /\ out.code = code
          /\ out.resp = "Success"
       THEN 1 ELSE 0)

\* C1: of the consumption requests that present the same code at most one
\* gets past check_is_valid and runs the handler; the others are answered
\* InvalidCode.
C1_AtMostOnce ==
    \A kind \in Kinds, code \in CodeStrings : HandlerRuns(kind, code) <= 1

\* C2: once a code has been consumed successfully, every later consumption
\* and every later pre-check with that code string is answered InvalidCode
\* and never reaches the handler.
C2_NoReplay ==
    [][\A kind \in Kinds, code \in CodeStrings :
          <<kind, code>> \in consumed =>
              /\ \A p \in Procs : ~Admitted(p, kind, code)
              /\ (/\ \/ Answered(VerifyView(kind))
                      \/ Answered(CodeVerifyView(kind))
                   /\ out'.code = code) => out'.resp = "InvalidCode"]_vars

C2_Witness ==
    /\ out.view \in {"SignupVerify", "PasswordResetVerify",
                      "EmailChangeVerify"}
    /\ out.resp = "InvalidCode"
    /\ <<KindOf(out.view), out.code>> \in consumed

\* C3: the cleanup step of a consumption leaves the user of the code with
\* no code of that kind, deletes no code of another kind or another user,
\* and the request is answered with the success message.
C3_SiblingInvalidation ==
    [][\A p \in Procs :
          (req[p].pc = "cleanup" /\ Free(p)') =>
              /\ \A c \in codes' : ~(/\ c.kind = KindOf(req[p].view)
                                      /\ c.user = req[p].user)
              /\ \A c \in codes : (\/ c.kind # KindOf(req[p].view)
                                     \/ c.user # req[p].user) => c \in codes'
              /\ out'.resp = "Success"]_vars

\* Two password-reset codes were issued, one was presented, both are gone.
C3_Witness ==
    /\ out.view = "PasswordResetVerify" /\ out.resp = "Success"
    /\ nextCode > 2
    /\ Cardinality(consumed) = 1
    /\ codes = {}

\* C4: a pre-check changes no user, code or token, and its answer is the
\* answer a repetition gives: Valid exactly when the code is still valid.
C4_PreCheckReadOnly ==
    [][\A kind \in Kinds, code \in CodeStrings :
          (Answered(CodeVerifyView(kind)) /\ out'.code = code) =>
              /\ UNCHANGED <<users, codes, tokens>>
              /\ out'.resp \in {"Valid", "InvalidCode"}
              /\ (out'.resp = "Valid") = CheckIsValid(kind, code)']_vars

C4_Witness ==
    /\ out.view = "PasswordResetCodeVerify" /\ out.resp = "Valid"
    /\ CheckIsValid("reset", out.code)

\* C5: a consumption request that presents a stored, expired code is
\* answered InvalidCode, changes no user, code or token, and never reaches
\* the handler.
C5_ExpiredRejected ==
    [][\A kind \in Kinds, code \in CodeStrings :
          Expired(kind, code) =>
              /\ \A p \in Procs : ~Admitted(p, kind, code)
              /\ (Answered(VerifyView(kind)) /\ out'.code = code) =>
                     /\ out'.resp = "InvalidCode"
                     /\ UNCHANGED <<users, codes, tokens>>]_vars

C5_Witness ==
    /\ out.view \in {"SignupVerify", "PasswordResetVerify",
                      "EmailChangeVerify"}
    /\ out.resp = "InvalidCode"
    /\ Expired(KindOf(out.view), out.code)

\* C6: in no state has an email-change consumption deleted the unverified
\* holder of new_email while the requester still has another email.
C6_AllOrNothing ==
    \A p \in Procs :
        (/\ req[p].view = "EmailChangeVerify"
         /\ req[p].holder # 0
         /\ req[p].holder \notin DOMAIN users) =>
            /\ req[p].user \in DOMAIN users
            /\ users[req[p].user].email = req[p].new_email

\* C7: with one request at a time, an email-change consumption that finds
\* an unverified holder of new_email deletes that user and nothing else of
\* the user table, then sets the requester's email to new_email; with no
\* holder it only sets the email; it ends with the success message and no
\* email-change code of the requester left.
C7_EmailChangeConsumption ==
    [][\A p \in Procs :
          req[p].view = "EmailChangeVerify" =>
              LET r == req[p]
                  h == UserWithEmail(r.new_email)
              IN  /\ (Stepped(p, "handle_request") /\ h # 0
                         /\ ~users[h].is_verified) =>
                         /\ req'[p].pc = "delete_holder"
                         /\ req'[p].holder = h
                  /\ (Stepped(p, "handle_request") /\ h = 0) =>
                         /\ req'[p].pc = "handle_action_code"
                         /\ users' = users
                  /\ Stepped(p, "delete_holder") =>
                         /\ DOMAIN users' = DOMAIN users \ {r.holder}
                         /\ \A u \in DOMAIN users' : users'[u] = users[u]
                  /\ Stepped(p, "handle_action_code") =>
                         /\ req'[p].pc = "cleanup"
                         /\ r.user \in DOMAIN users
                         /\ users' = [users EXCEPT
                                          ![r.user].email = r.new_email]
                  /\ Stepped(p, "cleanup") =>
                         /\ out'.resp = "Success"
                         /\ users' = users
                         /\ users[r.user].email = r.new_email
                         /\ r.holder # 0 => r.holder \notin DOMAIN users
                         /\ \A c \in codes' : ~(/\ c.kind = "email"
                                                 /\ c.user = r.user)]_vars

\* The requester has the address that an unverified user held.
C7_Witness ==
    /\ out.view = "EmailChangeVerify" /\ out.resp = "Success"
    /\ out.holder # 0 /\ out.holder \notin DOMAIN users
    /\ users[out.user].email = out.new_email

\* C8: when the query of an email-change consumption finds a verified
\* holder of new_email, the request is answered EmailTaken and no user,
\* code or token changes.
C8_TakenAtConsumption ==
    [][\A p \in Procs :
          (/\ Stepped(p, "handle_request")
           /\ VerifiedOwner(req[p].new_email)) =>
              /\ Free(p)'
              /\ out'.resp = "EmailTaken" /\ out'.code = req[p].code
              /\ UNCHANGED <<users, codes, tokens>>]_vars

\* The code was issued, so no verified user held the address then.
C8_Witness ==
    /\ out.view = "EmailChangeVerify" /\ out.resp = "EmailTaken"
    /\ VerifiedOwner(out.new_email)
    /\ CodeFound("email", out.code)

\* C9: email-change issuance for an address of a verified user is answered
\* EmailTaken and creates no code; otherwise it creates exactly one
\* email-change code of the requester carrying the address; no user changes.
C9_EmailChangeIssuance ==
    [][(Answered("EmailChange") /\ out'.new_email # 0) =>
          /\ users' = users
          /\ IF VerifiedOwner(out'.new_email)
             THEN out'.resp = "EmailTaken" /\ codes' = codes
             ELSE /\ out'.resp = "Created"
                  /\ \E c \in codes' \ codes :
                         /\ codes' = codes \cup {c}
                         /\ c.kind = "email" /\ c.code = out'.code
                         /\ c.user = out'.user
                         /\ c.new_email = out'.new_email]_vars

\* The address belongs to another, verified user.
C9_Witness ==
    /\ out.view = "EmailChange" /\ out.resp = "EmailTaken"
    /\ \E h \in DOMAIN users \ {out.user} :
           users[h].email = out.new_email /\ users[h].is_verified

C11_ResetIssuance ==
    [][(Answered("PasswordReset") /\ out'.email # 0) =>
          LET u == UserWithEmail(out'.email)
          IN  /\ users' = users /\ tokens' = tokens
              /\ IF u # 0 /\ users[u].is_verified /\ users[u].is_active
                 THEN /\ out'.resp = "Created"
                      /\ \E c \in codes' \ codes :
                             /\ codes' = codes \cup {c}
                             /\ c.kind = "reset" /\ c.user = u
                             /\ c.code = out'.code
                 ELSE /\ out'.resp # "Created"
                      /\ codes' = codes /\ nextCode' = nextCode]_vars

\* A deactivated user has asked for a reset and no code exists.
C11_Witness ==
    /\ out.view = "PasswordReset" /\ out.resp # "Created"
    /\ out.email # 0 /\ UserWithEmail(out.email) # 0
    /\ users[UserWithEmail(out.email)].is_verified
    /\ ~users[UserWithEmail(out.email)].is_active
    /\ codes = {}

\* What the client sees of a refused password-reset issuance for email e.
RefusedReset(e) ==
    [Idle EXCEPT !.pc = "done", !.view = "PasswordReset", !.email = e,
                 !.resp = "NotAllowed"]

\* C12: the response to a password-reset issuance for an email without a
\* user, of an unverified user or of a deactivated user is the same
\* NotAllowed failure: it depends on the request alone.
C12_AntiEnumeration ==
    [][\A e \in Emails :
          (/\ Answered("PasswordReset") /\ out'.email = e
           /\ LET u == UserWithEmail(e)
              IN  u = 0 \/ ~users[u].is_verified \/ ~users[u].is_active) =>
              out' = RefusedReset(e)]_vars

\* Reset has been refused for the email of an unverified user while another
\* user is deactivated and a third email has no user.
C12_Witness ==
    /\ out = RefusedReset(out.email) /\ out.email # 0
    /\ UserWithEmail(out.email) # 0
    /\ ~users[UserWithEmail(out.email)].is_verified
    /\ \E u \in DOMAIN users : users[u].is_verified /\ ~users[u].is_active

\* C13: with one request at a time, the consumption of a signup code first
\* sets is_verified of the user of the code and nothing else, then sends
\* the welcome email to that user's email while the code is still stored,
\* then deletes the signup codes of the user; when it has answered, the user
\* is verified and has no signup code.
C13_SignupVerifyOrder ==
    [][\A p \in Procs :
          req[p].view = "SignupVerify" =>
              LET r == req[p]
              IN  /\ Stepped(p, "handle_action_code") =>
                         /\ r.user \in DOMAIN users
                         /\ users' = [users EXCEPT
                                          ![r.user].is_verified = TRUE]
                         /\ req'[p].pc = "send_welcome_email"
                         /\ req'[p].welcome = 0
                         /\ codes' = codes
                  /\ Stepped(p, "send_welcome_email") =>
                         /\ users[r.user].is_verified
                         /\ req'[p].welcome = users[r.user].email
                         /\ CodeFound("signup", r.code)
                         /\ codes' = codes /\ users' = users
                         /\ req'[p].pc = "cleanup"
                  /\ Stepped(p, "cleanup") =>
                         /\ r.welcome = users[r.user].email
                         /\ out'.resp = "Success"
                         /\ users'[r.user].is_verified
                         /\ \A c \in codes' : ~(/\ c.kind = "signup"
                                                 /\ c.user = r.user)]_vars

\* Two signup codes were issued to the user; one was presented.
C13_Witness ==
    /\ out.view = "SignupVerify" /\ out.resp = "Success"
    /\ out.welcome = users[out.user].email
    /\ users[out.user].is_verified
    /\ nextCode > 2 /\ codes = {}

\* A login with email e and password pw has just gone through the checks of
\* Login.post: it has been answered, or it is on to the create of the token.
LoginWith(e, pw) ==
    /\ out = Idle
    /\ \/ Answered("Login") /\ out'.email = e /\ out'.password = pw
       \/ \E p \in Procs : /\ Free(p) /\ req'[p].view = "Login"
                            /\ req'[p].email = e /\ req'[p].password = pw

\* The login that has just gone through the checks will return a token.
LoginSucceeds ==
    \/ Answered("Login") /\ out'.resp = "Token"
    \/ \E p \in Procs : Free(p) /\ req'[p].pc = "create_token"

\* C14: with one request at a time, when the consumption of a
\* password-reset code has answered, the password of the user is the one of
\* the request, whatever it was before; and a login with an email and a
\* password that no user has together is answered InvalidCredentials, while
\* one with the email and the password of a verified, active user returns a
\* token.
C14_LoginAfterReset ==
    [][/\ \A p \in Procs :
             (req[p].view = "PasswordResetVerify" /\ Stepped(p, "cleanup")) =>
                 /\ out'.resp = "Success"
                 /\ req[p].user \in DOMAIN users'
                 /\ users'[req[p].user].password = req[p].password
       /\ \A e \in Emails, pw \in Passwords :
             LoginWith(e, pw) =>
                 /\ (\A u \in DOMAIN users :
                        ~(users[u].email = e /\ users[u].password = pw)) =>
                        /\ Answered("Login")
                        /\ out'.resp = "InvalidCredentials"
                 /\ (\E u \in DOMAIN users :
                        /\ users[u].email = e /\ users[u].password = pw
                        /\ users[u].is_verified /\ users[u].is_active) =>
                        LoginSucceeds
       /\ \A p \in Procs :
             Stepped(p, "create_token") =>
                 /\ out'.resp = "Token"
                 /\ [key |-> out'.token, user |-> out'.user] \in tokens'
      ]_vars

\* The password of the first user has been reset to another one, and a
\* login with the old one has been refused.
C14_Witness ==
    /\ out.view = "Login" /\ out.resp = "InvalidCredentials"
    /\ out.email = 1 /\ out.password = 1
    /\ 1 \in DOMAIN users /\ users[1].email = 1 /\ users[1].password = 2
    /\ users[1].is_verified /\ users[1].is_active
    /\ \E c \in CodeStrings : <<"reset", c>> \in consumed

\* C15: a password change that presents the stored password of the caller
\* is answered with the success message and stores the new password; one
\* that presents another password is answered PasswordMismatch and stores
\* nothing; neither changes another field or another user.
C15_PasswordChange ==
    [][(Answered("PasswordChange") /\ out'.resp # "ValidationError") =>
          LET u == out'.user
          IN  IF users[u].password = out'.password
              THEN /\ out'.resp = "Changed"
                   /\ users' = [users EXCEPT
                                    ![u].password = out'.new_password]
              ELSE /\ out'.resp = "PasswordMismatch"
                   /\ users' = users]_vars

\* The caller presented a password that is not the stored one.
C15_Witness ==
    /\ out.view = "PasswordChange" /\ out.resp = "PasswordMismatch"
    /\ users[out.user].password # out.password
    /\ out.new_password # users[out.user].password

\* A login with email e and password pw, which authenticate() has answered
\* with user u (0 for None), has just gone through the checks of Login.post.
LoginAs(e, pw, u) ==
    /\ out = Idle
    /\ \/ /\ Answered("Login") /\ out'.email = e /\ out'.password = pw
          /\ out'.user = u
       \/ \E p \in Procs : /\ Free(p) /\ req'[p].view = "Login"
                            /\ req'[p].email = e /\ req'[p].password = pw
                            /\ req'[p].user = u

\* C16: authentication gives a user only if the email and the password are
\* theirs, and gives the active user whose they are.  A login whose
\* authentication fails is answered InvalidCredentials; one that
\* authenticates an unverified user, NotVerified; one that authenticates a
\* verified, deactivated user, NotActive.  None of these creates or returns
\* a token, and a login that goes on to a token has authenticated a user
\* who is verified and active at that moment.
C16_LoginFailures ==
    [][/\ \A e \in Emails, pw \in Passwords, u \in 0..MaxUsers :
             LoginAs(e, pw, u) =>
                 /\ u # 0 => /\ u \in DOMAIN users
                             /\ users[u].email = e
                             /\ users[u].password = pw
                 /\ (\E x \in DOMAIN users :
                        /\ users[x].email = e /\ users[x].password = pw
                        /\ users[x].is_active) => u # 0
                 /\ u = 0 =>
                        /\ Answered("Login")
                        /\ out'.resp = "InvalidCredentials"
                 /\ (u # 0 /\ ~users[u].is_verified) =>
                        /\ Answered("Login")
                        /\ out'.resp = "NotVerified"
                 /\ (u # 0 /\ users[u].is_verified
                           /\ ~users[u].is_active) =>
                        /\ Answered("Login")
                        /\ out'.resp = "NotActive"
                 /\ LoginSucceeds =>
                        /\ u # 0
                        /\ users[u].is_verified /\ users[u].is_active
                 /\ tokens' = tokens
       /\ (Answered("Login") /\ out'.resp # "Token") => out'.token = 0
       /\ \A p \in Procs :
             (Stepped(p, "create_token") /\ out'.resp # "Token") =>
                 /\ out'.token = 0 /\ tokens' = tokens
      ]_vars

\* A verified user who has been deactivated has presented the right
\* password.
C16_Witness ==
    /\ out.view = "Login" /\ out.resp = "NotActive" /\ out.token = 0
    /\ users[out.user].email = out.email
    /\ users[out.user].password = out.password
    /\ users[out.user].is_verified /\ ~users[out.user].is_active
    /\ tokens = {}

\* C17: after every step each user has at most one token; a login that
\* returns a token returns the key of the one row of its user, and creates
\* no row when the user had one; and the row of a user goes away only with
\* a logout of that user or with the user: so logins of one user with no
\* logout in between return one key, also when they overlap.
C17_OneTokenPerUser ==
    [][/\ \A u \in 1..MaxUsers : Cardinality(TokenOf(u)') <= 1
       /\ \A u \in 0..MaxUsers :
             (out = Idle /\ out' # Idle /\ out'.view = "Login"
                /\ out'.resp = "Token" /\ out'.user = u) =>
                 /\ \E k \in 1..MaxTokens :
                        /\ out'.token = k
                        /\ TokenOf(u)' = {[key |-> k, user |-> u]}
                 /\ TokenOf(u) # {} => tokens' = tokens
       /\ \A u \in 1..MaxUsers :
             (TokenOf(u) # {} /\ TokenOf(u)' # TokenOf(u)) =>
                 \/ Answered("Logout") /\ out'.user = u
                 \/ u \notin DOMAIN users']_vars

\* Two logins of one user overlapped: one has created the token and has
\* answered, the other found no row in its get and is about to create.
C17_Witness ==
    /\ out.view = "Login" /\ out.resp = "Token"
    /\ TokenOf(out.user) = {[key |-> out.token, user |-> out.user]}
    /\ \E q \in Procs : /\ req[q].pc = "create_token"
                         /\ req[q].user = out.user

\* C18: a logout leaves its caller with no token, deletes no token of
\* another user, and changes no user and no code.  A login of a user who
\* has no token goes on to create one, and a created token has a key that
\* no token had before.
C18_Logout ==
    [][/\ Answered("Logout") =>
             /\ out'.resp = "LoggedOut"
             /\ \A t \in tokens' : t.user # out'.user
             /\ tokens' \subseteq tokens
             /\ \A t \in tokens : t.user # out'.user => t \in tokens'
             /\ users' = users /\ codes' = codes
       /\ \A u \in 1..MaxUsers :
             (/\ \E e \in Emails, pw \in Passwords : LoginAs(e, pw, u)
              /\ LoginSucceeds /\ TokenOf(u) = {}) =>
                 \E p \in Procs : Free(p) /\ req'[p].pc = "create_token"
       /\ tokens' \ tokens # {} =>
             /\ \E p \in Procs : Stepped(p, "create_token")
             /\ tokens' = tokens \cup {[key |-> nextToken,
                                         user |-> out'.user]}
             /\ out'.token = nextToken
             /\ nextToken' = nextToken + 1
             /\ \A t \in tokens : t.key < nextToken]_vars

\* The caller has logged out after a second login, and another user is
\* still logged in.
C18_Witness ==
    /\ out.view = "Logout" /\ out.resp = "LoggedOut"
    /\ TokenOf(out.user) = {}
    /\ \E t \in tokens : t.user # out.user
    /\ nextToken > MaxTokens

\* The three fields of a user that only consumption and password change may
\* write.
Credentials(row) == <<row.email, row.is_verified, row.password>>

\* C19: a step that changes the email, is_verified or the password of an
\* existing user is the write of a consumption (signup verify,
\* password-reset verify, email-change verify) or a password change: the
\* issuance views, the pre-checks, login and logout change none of them, and
\* a repeated signup leaves the password of the unverified user as it was.
C19_CredentialFrame ==
    [][\A u \in DOMAIN users :
          (u \in DOMAIN users'
             /\ Credentials(users'[u]) # Credentials(users[u])) =>
              \/ \E p \in Procs :
                     /\ Stepped(p, "handle_action_code")
                     /\ req[p].user = u
              \/ Answered("PasswordChange") /\ out'.user = u]_vars

C21_FailedPreconditionKeepsCode ==
    [][/\ \A kind \in Kinds, code \in CodeStrings :
             (/\ Answered(VerifyView(kind)) /\ out'.code = code
              /\ CheckIsValid(kind, code)) =>
                 /\ kind = "reset"
                 /\ out'.resp = "ValidationError"
                 /\ UNCHANGED <<users, codes, tokens>>
                 /\ CheckIsValid(kind, code)'
       /\ \A p \in Procs :
             (Stepped(p, "handle_request") /\ Free(p)') =>
                 /\ out'.resp = "EmailTaken"
                 /\ VerifiedOwner(req[p].new_email)
                 /\ UNCHANGED <<users, codes, tokens>>
                 /\ \A c \in codes :
                        (c.kind = "email" /\ c.user = req[p].user) =>
                            c \in codes'
       /\ \A p \in Procs :
             (Stepped(p, "handle_request") /\ ~Free(p)') =>
                 ~VerifiedOwner(req[p].new_email)]_vars

\* A reset request with a body that fails validation has been refused, and
\* the presented code and its sibling are still valid.
C21_Witness ==
    /\ out.view = "PasswordResetVerify" /\ out.resp = "ValidationError"
    /\ CheckIsValid("reset", out.code)
    /\ Cardinality(CodesOf("reset", out.user)) = 2
    /\ \A c \in CodesOf("reset", out.user) : CheckIsValid("reset", c.code)

\* C22: no step deletes a user who is verified when the step is taken, and
\* no step makes a verified user unverified, whatever the interleaving.
C22_VerifiedUserKept ==
    [][\A u \in DOMAIN users :
          users[u].is_verified =>
              /\ u \in DOMAIN users'
              /\ users'[u].is_verified]_vars

====
